---- MODULE Spec2Model ----
(***************************************************************************)
(* Model of src/src/utils/binary-encoding.ts: the binary transaction codec *)
(* (encodeTransaction / decodeTransaction / getEncodingEfficiency) and the *)
(* TransactionValidator.                                                   *)
(*                                                                         *)
(* Representation of the JavaScript values:                                *)
(*  - a string is the sequence of its UTF-16 code units (integers);        *)
(*  - a Buffer is the sequence of its bytes (integers 0..255), indexed     *)
(*    from 1 here and from 0 in the source (offsets keep the source's      *)
(*    0-based values);                                                     *)
(*  - a number is held in fixed point with one binary fractional digit:    *)
(*    the model integer n stands for the JavaScript number n / 2, so that  *)
(*    non-integral numbers (1.5 is 3) exist in the model. Num(i) is the    *)
(*    integer i. Sums and comparisons with 0 are exact in this form.       *)
(*  - a thrown exception is a result record whose err field is not "none". *)
(***************************************************************************)
EXTENDS Integers, Sequences, FiniteSets, TLC

VARIABLES tx, store, buffer, cut, decoded, efficiency, validation, calls

vars == <<tx, store, buffer, cut, decoded, efficiency, validation, calls>>

(***************************************************************************)
(* JavaScript numbers                                                      *)
(***************************************************************************)
Num(i) == 2 * i

IsInteger(n) == n % 2 = 0

Whole(n) == n \div 2

Min(a, b) == IF a < b THEN a ELSE b

(***************************************************************************)
(* UTF-8 (Buffer.from(str, 'utf8') and buf.toString('utf8'))               *)
(***************************************************************************)
IsHighSurrogate(c) == c >= 55296 /\ c <= 56319

IsLowSurrogate(c) == c >= 56320 /\ c <= 57343

IsContinuation(b) == b >= 128 /\ b <= 191

\* The concatenation of seqs[lo..hi] and the sum of nums[lo..hi].
RECURSIVE Concat(_, _, _)
Concat(seqs, lo, hi) ==
    IF lo > hi THEN <<>>
    ELSE IF lo = hi THEN seqs[lo]
    ELSE LET mid == (lo + hi) \div 2 IN
         Concat(seqs, lo, mid) \o Concat(seqs, mid + 1, hi)

RECURSIVE Sum(_, _, _)
Sum(nums, lo, hi) ==
    IF lo > hi THEN 0
    ELSE IF lo = hi THEN nums[lo]
    ELSE LET mid == (lo + hi) \div 2 IN
         Sum(nums, lo, mid) + Sum(nums, mid + 1, hi)

\* A high surrogate followed by a low one is a pair (one code point).
PairStarts(s, i) ==
    IsHighSurrogate(s[i]) /\ i < Len(s) /\ IsLowSurrogate(s[i + 1])

PairEnds(s, i) ==
    IsLowSurrogate(s[i]) /\ i > 1 /\ IsHighSurrogate(s[i - 1])

\* The bytes code unit s[i] contributes to Buffer.from(s, 'utf8'): a
\* surrogate pair is one 4-byte sequence (given at its first unit), an
\* unpaired surrogate is written as U+FFFD (EF BF BD).
Utf8Unit(s, i) ==
    LET c == s[i] IN
    IF c < 128 THEN <<c>>
    ELSE IF c < 2048 THEN <<192 + (c \div 64), 128 + (c % 64)>>
    ELSE IF PairStarts(s, i)
    THEN LET cp == 65536 + (c - 55296) * 1024 + (s[i + 1] - 56320) IN
         <<240 + (cp \div 262144), 128 + ((cp \div 4096) % 64),
           128 + ((cp \div 64) % 64), 128 + (cp % 64)>>
    ELSE IF PairEnds(s, i) THEN <<>>
    ELSE IF IsHighSurrogate(c) \/ IsLowSurrogate(c) THEN <<239, 191, 189>>
    ELSE <<224 + (c \div 4096), 128 + ((c \div 64) % 64), 128 + (c % 64)>>

\* Buffer.from(str, 'utf8')
Utf8Encode(s) == Concat([i \in 1..Len(s) |-> Utf8Unit(s, i)], 1, Len(s))

\* Number of bytes the sequence led by byte b announces (0: not a lead byte).
Utf8Need(b) ==
    IF b < 128 THEN 1
    ELSE IF b >= 194 /\ b <= 223 THEN 2
    ELSE IF b >= 224 /\ b <= 239 THEN 3
    ELSE IF b >= 240 /\ b <= 244 THEN 4
    ELSE 0

\* Number of continuation bytes in b[from..upto], counted from b[from] until
\* the first byte that is not one.
RECURSIVE Utf8Run(_, _, _)
Utf8Run(b, from, upto) ==
    IF from > upto \/ from > Len(b) THEN 0
    ELSE IF IsContinuation(b[from]) THEN 1 + Utf8Run(b, from + 1, upto)
    ELSE 0

Utf8CodePoint(b, pos, need) ==
    IF need = 1 THEN b[pos]
    ELSE IF need = 2 THEN (b[pos] - 192) * 64 + (b[pos + 1] - 128)
    ELSE IF need = 3
    THEN (b[pos] - 224) * 4096 + (b[pos + 1] - 128) * 64 + (b[pos + 2] - 128)
    ELSE (b[pos] - 240) * 262144 + (b[pos + 1] - 128) * 4096
         + (b[pos + 2] - 128) * 64 + (b[pos + 3] - 128)

Utf8Valid(cp, need) ==
    IF need = 1 THEN TRUE
    ELSE IF need = 2 THEN cp >= 128
    ELSE IF need = 3
    THEN cp >= 2048 /\ ~(IsHighSurrogate(cp) \/ IsLowSurrogate(cp))
    ELSE cp >= 65536 /\ cp <= 1114111

Utf16Units(cp) ==
    IF cp < 65536 THEN <<cp>>
    ELSE <<55296 + ((cp - 65536) \div 1024), 56320 + ((cp - 65536) % 1024)>>

\* The character decoded at b[pos] and the position after it: an ill-formed
\* or cut-off sequence decodes to one U+FFFD (65533).
Utf8DecodeOne(b, pos) ==
    LET need == Utf8Need(b[pos])
        run  == IF need = 0 THEN 0 ELSE Utf8Run(b, pos + 1, pos + need - 1)
    IN  IF need > 0 /\ run = need - 1
           /\ Utf8Valid(Utf8CodePoint(b, pos, need), need)
        THEN [units |-> Utf16Units(Utf8CodePoint(b, pos, need)),
              next |-> pos + need]
        ELSE [units |-> <<65533>>, next |-> pos + 1 + run]

\* The next n characters (fewer at the end of b) decoded from b[pos].
RECURSIVE Utf8DecodeN(_, _, _)
Utf8DecodeN(b, pos, n) ==
    IF n = 0 \/ pos > Len(b) THEN [units |-> <<>>, next |-> pos]
    ELSE IF n = 1 THEN Utf8DecodeOne(b, pos)
    ELSE LET left  == Utf8DecodeN(b, pos, n \div 2)
             right == Utf8DecodeN(b, left.next, n - (n \div 2))
         IN  [units |-> left.units \o right.units, next |-> right.next]

\* buf.toString('utf8')
Utf8Decode(b) == Utf8DecodeN(b, 1, Len(b)).units

(***************************************************************************)
(* Results of the codec's functions                                        *)
(***************************************************************************)
Ok(bytes) == [err |-> "none", buf |-> bytes]

Throw(e) == [err |-> e, buf |-> <<>>]

\* parts.push(a); parts.push(b): the first exception ends the call.
Then(a, b) ==
    IF a.err # "none" THEN a
    ELSE IF b.err # "none" THEN b
    ELSE Ok(a.buf \o b.buf)

\* Buffer.from([n]): one byte, the value taken modulo 256.
ByteOf(n) == <<n % 256>>

RECURSIVE BigEndian(_, _)
BigEndian(n, width) ==
    IF width = 0 THEN <<>>
    ELSE BigEndian(n \div 256, width - 1) \o <<n % 256>>

RECURSIVE FromBigEndian(_, _, _)
FromBigEndian(b, first, width) ==
    IF width = 0 THEN 0
    ELSE FromBigEndian(b, first, width - 1) * 256 + b[first + width - 1]

(***************************************************************************)
(* Encoding                                                                *)
(***************************************************************************)
MaxStringBytes == 255

MaxInputs == 255

MaxOutputs == 255

NumberBytes == 8

\* writeString rejecting a string of exactly 255 bytes.
writeString_OffByOne(str) ==
    LET data == Utf8Encode(str) IN
    IF Len(data) >= MaxStringBytes THEN Throw("String too long")
    ELSE Ok(ByteOf(Len(data)) \o data)

writeString(str) ==
    LET data == Utf8Encode(str) IN
    IF Len(data) > MaxStringBytes THEN Throw("String too long")
    ELSE Ok(ByteOf(Len(data)) \o data)

\* BigInt(num) throws a RangeError for a non-integral number and
\* writeBigUInt64BE throws one for a negative value.
writeNumber(num) ==
    IF ~IsInteger(num) THEN Throw("RangeError")
    ELSE IF num < 0 THEN Throw("RangeError")
    ELSE Ok(BigEndian(Whole(num), NumberBytes))

\* writeInput writing the signature before the owner.
writeInput_SignatureFirst(input) ==
    Then(writeString(input.utxoId.txId),
    Then(writeNumber(input.utxoId.outputIndex),
    Then(writeString(input.signature),
         writeString(input.owner))))

writeInput(input) ==
    Then(writeString(input.utxoId.txId),
    Then(writeNumber(input.utxoId.outputIndex),
    Then(writeString(input.owner),
         writeString(input.signature))))

writeOutput(output) ==
    Then(writeNumber(output.amount), writeString(output.recipient))

\* for (const input of transaction.inputs) writeInput(input, parts), over
\* inputs[lo..hi].
RECURSIVE writeInputs(_, _, _)
writeInputs(inputs, lo, hi) ==
    IF lo > hi THEN Ok(<<>>)
    ELSE IF lo = hi THEN writeInput(inputs[lo])
    ELSE LET mid == (lo + hi) \div 2 IN
         Then(writeInputs(inputs, lo, mid), writeInputs(inputs, mid + 1, hi))

RECURSIVE writeOutputs(_, _, _)
writeOutputs(outputs, lo, hi) ==
    IF lo > hi THEN Ok(<<>>)
    ELSE IF lo = hi THEN writeOutput(outputs[lo])
    ELSE LET mid == (lo + hi) \div 2 IN
         Then(writeOutputs(outputs, lo, mid), writeOutputs(outputs, mid + 1, hi))

inputsCount(transaction) ==
    IF Len(transaction.inputs) > MaxInputs THEN Throw("Inputs too long")
    ELSE Ok(ByteOf(Len(transaction.inputs)))

outputsCount(transaction) ==
    IF Len(transaction.outputs) > MaxOutputs THEN Throw("Outputs too long")
    ELSE Ok(ByteOf(Len(transaction.outputs)))

encodeTransaction(transaction) ==
    Then(writeString(transaction.id),
    Then(writeNumber(transaction.timestamp),
    Then(inputsCount(transaction),
    Then(writeInputs(transaction.inputs, 1, Len(transaction.inputs)),
    Then(outputsCount(transaction),
         writeOutputs(transaction.outputs, 1, Len(transaction.outputs)))))))

(***************************************************************************)
(* Decoding                                                                *)
(***************************************************************************)
\* The result of a read: the value and the cursor after it, or the RangeError
\* (ERR_OUT_OF_RANGE) that readUInt8 / readBigUInt64BE throw for an offset
\* past the end of the buffer.
Read(v, next) == [err |-> "none", value |-> v, nextOffset |-> next]

ReadThrow == [err |-> "ERR_OUT_OF_RANGE", value |-> <<>>, nextOffset |-> 0]

\* buffer.readUInt8(offset)
readUInt8(buf, offset) ==
    IF offset + 1 > Len(buf) THEN ReadThrow
    ELSE Read(buf[offset + 1], offset + 1)

\* buffer.subarray(start, end): both ends are clamped to the buffer's length.
subarray(buf, start, end) ==
    SubSeq(buf, Min(start, Len(buf)) + 1, Min(end, Len(buf)))

readString(buf, offset) ==
    LET length == readUInt8(buf, offset) IN
    IF length.err # "none" THEN ReadThrow
    ELSE LET start == offset + 1
             end   == start + length.value
         IN  Read(Utf8Decode(subarray(buf, start, end)), end)

\* Number(buffer.readBigUInt64BE(offset)): exact below 2^53.
readNumber(buf, offset) ==
    IF offset + NumberBytes > Len(buf) THEN ReadThrow
    ELSE Read(Num(FromBigEndian(buf, offset + 1, NumberBytes)),
              offset + NumberBytes)

readInput(buf, offset) ==
    LET txId == readString(buf, offset) IN
    IF txId.err # "none" THEN ReadThrow ELSE
    LET outputIndex == readNumber(buf, txId.nextOffset) IN
    IF outputIndex.err # "none" THEN ReadThrow ELSE
    LET owner == readString(buf, outputIndex.nextOffset) IN
    IF owner.err # "none" THEN ReadThrow ELSE
    LET signature == readString(buf, owner.nextOffset) IN
    IF signature.err # "none" THEN ReadThrow ELSE
    Read([utxoId |-> [txId |-> txId.value, outputIndex |-> outputIndex.value],
          owner |-> owner.value,
          signature |-> signature.value],
         signature.nextOffset)

readOutput(buf, offset) ==
    LET amount == readNumber(buf, offset) IN
    IF amount.err # "none" THEN ReadThrow ELSE
    LET recipient == readString(buf, amount.nextOffset) IN
    IF recipient.err # "none" THEN ReadThrow ELSE
    Read([amount |-> amount.value, recipient |-> recipient.value],
         recipient.nextOffset)

\* for (let i = 0; i < inputsAmount; i++) { readInput; push; offset = next }
\* for the next `remaining` inputs.
RECURSIVE readInputs(_, _, _)
readInputs(buf, offset, remaining) ==
    IF remaining = 0 THEN Read(<<>>, offset)
    ELSE IF remaining = 1
    THEN LET one == readInput(buf, offset) IN
         IF one.err # "none" THEN ReadThrow
         ELSE Read(<<one.value>>, one.nextOffset)
    ELSE LET first == readInputs(buf, offset, remaining \div 2) IN
         IF first.err # "none" THEN ReadThrow
         ELSE LET more == readInputs(buf, first.nextOffset,
                                     remaining - (remaining \div 2)) IN
              IF more.err # "none" THEN ReadThrow
              ELSE Read(first.value \o more.value, more.nextOffset)

RECURSIVE readOutputs(_, _, _)
readOutputs(buf, offset, remaining) ==
    IF remaining = 0 THEN Read(<<>>, offset)
    ELSE IF remaining = 1
    THEN LET one == readOutput(buf, offset) IN
         IF one.err # "none" THEN ReadThrow
         ELSE Read(<<one.value>>, one.nextOffset)
    ELSE LET first == readOutputs(buf, offset, remaining \div 2) IN
         IF first.err # "none" THEN ReadThrow
         ELSE LET more == readOutputs(buf, first.nextOffset,
                                      remaining - (remaining \div 2)) IN
              IF more.err # "none" THEN ReadThrow
              ELSE Read(first.value \o more.value, more.nextOffset)

NoTransaction == [id |-> <<>>, timestamp |-> 0, inputs |-> <<>>, outputs |-> <<>>]

Decoded(t) == [err |-> "none", tx |-> t]

DecodeThrow == [err |-> "ERR_OUT_OF_RANGE", tx |-> NoTransaction]

decodeTransaction(buf) ==
    LET id == readString(buf, 0) IN
    IF id.err # "none" THEN DecodeThrow ELSE
    LET timestamp == readNumber(buf, id.nextOffset) IN
    IF timestamp.err # "none" THEN DecodeThrow ELSE
    LET inputsAmount == readUInt8(buf, timestamp.nextOffset) IN
    IF inputsAmount.err # "none" THEN DecodeThrow ELSE
    LET inputs == readInputs(buf, inputsAmount.nextOffset, inputsAmount.value) IN
    IF inputs.err # "none" THEN DecodeThrow ELSE
    LET outputsAmount == readUInt8(buf, inputs.nextOffset) IN
    IF outputsAmount.err # "none" THEN DecodeThrow ELSE
    LET outputs == readOutputs(buf, outputsAmount.nextOffset, outputsAmount.value) IN
    IF outputs.err # "none" THEN DecodeThrow ELSE
    Decoded([id |-> id.value, timestamp |-> timestamp.value,
             inputs |-> inputs.value, outputs |-> outputs.value])

(***************************************************************************)
(* getEncodingEfficiency                                                   *)
(***************************************************************************)
RECURSIVE Digits(_)
Digits(i) ==
    IF i < 10 THEN <<48 + i>> ELSE Digits(i \div 10) \o <<48 + (i % 10)>>

\* String(n) of a number: "-" for a negative one, ".5" for a half.
RECURSIVE NumberToString(_)
NumberToString(n) ==
    IF n < 0 THEN <<45>> \o NumberToString(0 - n)
    ELSE Digits(Whole(n)) \o (IF IsInteger(n) THEN <<>> ELSE <<46, 53>>)

\* UTF-8 size of what code unit s[i] contributes to the text of a string in
\* JSON.stringify: a quote or backslash takes 2 bytes, a control character 2
\* or 6, an unpaired surrogate 6 (\udXXX), any other character its UTF-8
\* bytes.
JsonUnitSize(s, i) ==
    LET c == s[i] IN
    IF c = 34 \/ c = 92 \/ c \in {8, 9, 10, 12, 13} THEN 2
    ELSE IF c < 32 THEN 6
    ELSE IF PairStarts(s, i) \/ PairEnds(s, i) THEN Len(Utf8Unit(s, i))
    ELSE IF IsHighSurrogate(c) \/ IsLowSurrogate(c) THEN 6
    ELSE Len(Utf8Unit(s, i))

JsonTextSize(s) == Sum([i \in 1..Len(s) |-> JsonUnitSize(s, i)], 1, Len(s))

JsonStringSize(s) == 2 + JsonTextSize(s)

JsonNumberSize(n) == Len(NumberToString(n))

\* {"utxoId":{"txId":_,"outputIndex":_},"owner":_,"signature":_}
JsonInputSize(input) ==
    57 + JsonStringSize(input.utxoId.txId)
       + JsonNumberSize(input.utxoId.outputIndex)
       + JsonStringSize(input.owner) + JsonStringSize(input.signature)

\* {"amount":_,"recipient":_}
JsonOutputSize(output) ==
    24 + JsonNumberSize(output.amount) + JsonStringSize(output.recipient)

\* The elements of a JSON array and the commas between them.
JsonListSize(sizes) ==
    Sum(sizes, 1, Len(sizes)) + (IF Len(sizes) > 1 THEN Len(sizes) - 1 ELSE 0)

\* Buffer.from(JSON.stringify(transaction)).length
\* {"id":_,"inputs":[_],"outputs":[_],"timestamp":_}
JsonSize(transaction) ==
    45 + JsonStringSize(transaction.id)
       + JsonListSize([i \in 1..Len(transaction.inputs) |->
                          JsonInputSize(transaction.inputs[i])])
       + JsonListSize([i \in 1..Len(transaction.outputs) |->
                          JsonOutputSize(transaction.outputs[i])])
       + JsonNumberSize(transaction.timestamp)

\* (((jsonSize - binarySize) / jsonSize) * 100).toFixed(1), in tenths of a
\* percent, rounded to the nearest.
SavingsTenths(jsonSize, binarySize) ==
    (2000 * (jsonSize - binarySize) + jsonSize) \div (2 * jsonSize)

\* getEncodingEfficiency reporting a size of 0 when encoding fails.
getEncodingEfficiency_ZeroOnFailure(transaction) ==
    LET jsonSize == JsonSize(transaction)
        encoded  == encodeTransaction(transaction)
    IN  [returned |-> TRUE, jsonSize |-> jsonSize,
         binarySize |-> Len(encoded.buf),
         savings |-> [text |-> "%",
                      tenths |-> SavingsTenths(jsonSize, Len(encoded.buf))]]

getEncodingEfficiency(transaction) ==
    LET jsonSize == JsonSize(transaction)
        encoded  == encodeTransaction(transaction)
    IN  IF encoded.err = "none"
        THEN [returned |-> TRUE, jsonSize |-> jsonSize,
              binarySize |-> Len(encoded.buf),
              savings |-> [text |-> "%",
                           tenths |-> SavingsTenths(jsonSize, Len(encoded.buf))]]
        ELSE [returned |-> TRUE, jsonSize |-> jsonSize, binarySize |-> -1,
              savings |-> [text |-> "Not implemented", tenths |-> 0]]

(***************************************************************************)
(* Collaborators of the validator (./types, ./utxo-pool, ./utils/crypto)   *)
(***************************************************************************)
\* getUTXOKey(utxoId): the canonical string "txId:outputIndex".
getUTXOKey(utxoId) ==
    utxoId.txId \o <<58>> \o NumberToString(utxoId.outputIndex)

\* UTXOPoolManager.getUTXO(txId, outputIndex): the pool's UTXO with that
\* id, or nothing. A pool is a set of UTXOs with distinct ids.
NoUTXO == [id |-> [txId |-> <<>>, outputIndex |-> 0], amount |-> 0,
           recipient |-> <<>>]

getUTXO(pool, txId, outputIndex) ==
    LET hits == {u \in pool : u.id.txId = txId /\ u.id.outputIndex = outputIndex}
    IN  IF hits = {} THEN [found |-> FALSE, utxo |-> NoUTXO]
        ELSE [found |-> TRUE, utxo |-> CHOOSE u \in hits : TRUE]

\* sign(message, identity) and verify(message, signature, identity): a
\* signature is accepted exactly for the message and the identity it was
\* made with.
Sign(message, identity) == <<message, identity>>

verify(message, signature, identity) == signature = Sign(message, identity)

(***************************************************************************)
(* TransactionValidator                                                    *)
(***************************************************************************)
validateNonEmptyInputsAndOutputs(transaction) ==
    (IF Len(transaction.inputs) = 0 THEN <<"EMPTY_INPUTS">> ELSE <<>>)
    \o (IF Len(transaction.outputs) = 0 THEN <<"EMPTY_OUTPUTS">> ELSE <<>>)

\* The loop of validateBalance over outputs[i..]: the errors and the sum.
RECURSIVE outputsPass(_, _)
outputsPass(outputs, i) ==
    IF i > Len(outputs) THEN [errors |-> <<>>, outputsTotal |-> 0]
    ELSE LET rest == outputsPass(outputs, i + 1) IN
         [errors |-> (IF outputs[i].amount <= 0 THEN <<"NEGATIVE_AMOUNT">>
                      ELSE <<>>) \o rest.errors,
          outputsTotal |-> outputs[i].amount + rest.outputsTotal]

\* validateBalance reporting a mismatch only when the inputs fall short.
validateBalance_ShortfallOnly(inputsTotal, transaction) ==
    LET pass == outputsPass(transaction.outputs, 1) IN
    pass.errors
    \o (IF inputsTotal < pass.outputsTotal THEN <<"AMOUNT_MISMATCH">>
        ELSE <<>>)

validateBalance(inputsTotal, transaction) ==
    LET pass == outputsPass(transaction.outputs, 1) IN
    pass.errors
    \o (IF inputsTotal # pass.outputsTotal THEN <<"AMOUNT_MISMATCH">>
        ELSE <<>>)

\* validateDoubleSpending that never records the key it has seen.
validateDoubleSpending_NoRecord(input, utxos) ==
    LET utxoKey == getUTXOKey(input.utxoId) IN
    IF utxoKey \in utxos
    THEN [errors |-> <<"DOUBLE_SPENDING">>, utxos |-> utxos]
    ELSE [errors |-> <<>>, utxos |-> utxos]

validateDoubleSpending(input, utxos) ==
    LET utxoKey == getUTXOKey(input.utxoId) IN
    IF utxoKey \in utxos
    THEN [errors |-> <<"DOUBLE_SPENDING">>, utxos |-> utxos]
    ELSE [errors |-> <<>>, utxos |-> utxos \cup {utxoKey}]

createTransactionDataForSigning_(transaction) ==
    [id |-> transaction.id,
     inputs |-> [i \in 1..Len(transaction.inputs) |->
                    [utxoId |-> transaction.inputs[i].utxoId,
                     owner |-> transaction.inputs[i].owner]],
     outputs |-> transaction.outputs,
     timestamp |-> transaction.timestamp]

\* validateInputSignature that accepts every signature.
validateInputSignature_Unchecked(transaction, input) == <<>>

validateInputSignature(transaction, input) ==
    LET transactionData == createTransactionDataForSigning_(transaction)
        isValid == verify(transactionData, input.signature, input.owner)
    IN  IF ~isValid THEN <<"INVALID_SIGNATURE">> ELSE <<>>

\* One turn of the loop over the inputs, from the loop's state
\* acc = [errors, imputTotal, utxos].
inputStep(transaction, pool, input, acc) ==
    LET got == getUTXO(pool, input.utxoId.txId, input.utxoId.outputIndex) IN
    IF ~got.found
    THEN [acc EXCEPT !.errors = @ \o <<"UTXO_NOT_FOUND">>]
    ELSE LET spent == validateDoubleSpending(input, acc.utxos) IN
         [errors |-> acc.errors
                     \o (IF got.utxo.amount <= 0 THEN <<"NEGATIVE_AMOUNT">>
                         ELSE <<>>)
                     \o validateInputSignature(transaction, input)
                     \o spent.errors,
          imputTotal |-> acc.imputTotal + got.utxo.amount,
          utxos |-> spent.utxos]

RECURSIVE inputsPass(_, _, _, _)
inputsPass(transaction, pool, i, acc) ==
    IF i > Len(transaction.inputs) THEN acc
    ELSE inputsPass(transaction, pool, i + 1,
                    inputStep(transaction, pool, transaction.inputs[i], acc))

\* validateTransaction returning at the first check that finds errors.
validateTransaction_StopsEarly(transaction, pool) ==
    LET structural == validateNonEmptyInputsAndOutputs(transaction)
        start  == [errors |-> <<>>, imputTotal |-> 0, utxos |-> {}]
        pass   == inputsPass(transaction, pool, 1, start)
        errors == IF structural # <<>> THEN structural
                  ELSE IF pass.errors # <<>> THEN pass.errors
                  ELSE validateBalance(pass.imputTotal, transaction)
    IN  [valid |-> Len(errors) = 0, errors |-> errors]

validateTransaction(transaction, pool) ==
    LET start == [errors |-> validateNonEmptyInputsAndOutputs(transaction),
                  imputTotal |-> 0, utxos |-> {}]
        pass   == inputsPass(transaction, pool, 1, start)
        errors == pass.errors \o validateBalance(pass.imputTotal, transaction)
    IN  [valid |-> Len(errors) = 0, errors |-> errors]

\* A validation that removes the UTXOs the transaction spends.
poolAfterValidate_Spends(transaction, pool) ==
    {u \in pool : \A i \in 1..Len(transaction.inputs) :
                      transaction.inputs[i].utxoId # u.id}

\* What validateTransaction leaves in the pool: it only calls getUTXO.
poolAfterValidate(transaction, pool) == pool

(***************************************************************************)
(* Inputs                                                                  *)
(***************************************************************************)
InputsBound == 2

OutputsBound == 2

CodecListBound == 1

MaxCalls == 2

SeqsUpTo(S, n) == UNION {[1..k -> S] : k \in 0..n}

Repeat(c, n) == [i \in 1..n |-> c]

RepeatPair(hi, lo, n) == [i \in 1..(2 * n) |-> IF i % 2 = 1 THEN hi ELSE lo]

\* Identities "A" and "B"; transaction ids "a", "t".
Alice == <<65>>

Bob == <<66>>

Identities == {Alice, Bob}

UtxoIds == {[txId |-> <<97>>, outputIndex |-> Num(0)],
            [txId |-> <<97>>, outputIndex |-> Num(1)]}

Utxo(index, amount, recipient) ==
    [id |-> [txId |-> <<97>>, outputIndex |-> Num(index)],
     amount |-> Num(amount), recipient |-> recipient]

\* The pools validation runs against: both UTXOs, the first only, and
\* pools holding a UTXO whose amount is negative or zero (which no valid
\* transaction creates, and which the validator checks for).
Pools == {{Utxo(0, 1, Alice), Utxo(1, 1, Bob)},
          {Utxo(0, 1, Alice)},
          {Utxo(0, 2, Alice), Utxo(1, -1, Bob)},
          {Utxo(1, 0, Bob)}}

OutputAmounts == {Num(0), Num(1)}

UnsignedTxs ==
    [id : {<<116>>}, timestamp : {Num(7)},
     inputs : SeqsUpTo([utxoId : UtxoIds, owner : Identities], InputsBound),
     outputs : SeqsUpTo([amount : OutputAmounts, recipient : {Bob}],
                        OutputsBound)]

\* A payload other than the transaction's own (a signature made for another
\* transaction).
OtherPayload ==
    [id |-> <<111>>, inputs |-> <<>>, outputs |-> <<>>, timestamp |-> Num(0)]

\* The signatures an input of unsigned transaction u may carry: made over
\* u's payload by either identity, or made by its owner over another payload.
SignatureChoices(u, input) ==
    {Sign(createTransactionDataForSigning_(u), who) : who \in Identities}
    \cup {Sign(OtherPayload, input.owner)}

SignedWith(u, sigs) ==
    [u EXCEPT !.inputs = [i \in 1..Len(u.inputs) |->
        [utxoId |-> u.inputs[i].utxoId, owner |-> u.inputs[i].owner,
         signature |-> sigs[i]]]]

Signings(u) ==
    LET all == UNION {SignatureChoices(u, u.inputs[i]) : i \in 1..Len(u.inputs)}
    IN  {sigs \in [1..Len(u.inputs) -> all] :
            \A i \in 1..Len(u.inputs) : sigs[i] \in SignatureChoices(u, u.inputs[i])}

\* t is an unsigned transaction with one of its signings.
IsSignedTx(t) ==
    \E u \in UnsignedTxs : \E sigs \in Signings(u) : t = SignedWith(u, sigs)

SignedBy(u, who) ==
    SignedWith(u, [i \in 1..Len(u.inputs) |->
                      Sign(createTransactionDataForSigning_(u), who)])

\* The transactions a caller submits after another: spending the first
\* UTXO, spending both, and spending the first twice.
FollowUps ==
    LET in(index, owner) ==
            [utxoId |-> [txId |-> <<97>>, outputIndex |-> Num(index)],
             owner |-> owner]
        u(inputs, amount) ==
            [id |-> <<116>>, timestamp |-> Num(7), inputs |-> inputs,
             outputs |-> <<[amount |-> Num(amount), recipient |-> Bob]>>]
    IN  {SignedBy(u(<<in(0, Alice)>>, 1), Alice),
         SignedBy(u(<<in(0, Alice), in(1, Alice)>>, 2), Alice),
         SignedBy(u(<<in(0, Bob), in(0, Bob)>>, 2), Bob)}

\* Strings of characters of 1 to 4 UTF-8 bytes ("", "a:1", two BMP
\* characters, a surrogate pair) and one with an unpaired high surrogate.
CodecStrings ==
    {<<>>, <<97, 58, 49>>, <<233, 8364>>, <<55357, 56832>>, <<97, 55357>>}

CodecNumbers == {Num(0), Num(258), Num(1000000007)}

CodecInputs ==
    {[utxoId |-> [txId |-> <<97>>, outputIndex |-> Num(1)],
      owner |-> <<65>>, signature |-> <<115, 233>>],
     [utxoId |-> [txId |-> <<>>, outputIndex |-> Num(65536)],
      owner |-> <<8364>>, signature |-> <<>>],
     [utxoId |-> [txId |-> <<55357, 56832>>, outputIndex |-> Num(0)],
      owner |-> <<>>, signature |-> <<97, 98, 99, 100>>]}

CodecOutputs ==
    {[amount |-> Num(100), recipient |-> <<66, 111, 98>>],
     [amount |-> Num(0), recipient |-> <<>>],
     [amount |-> Num(16777216), recipient |-> <<233, 8364, 55357, 56832>>]}

SmallTxs ==
    [id : CodecStrings, timestamp : CodecNumbers,
     inputs : SeqsUpTo(CodecInputs, CodecListBound),
     outputs : SeqsUpTo(CodecOutputs, CodecListBound)]

\* Strings just below, at and just above the limit of 255 UTF-8 bytes, in
\* characters of 1, 2, 3 and 4 bytes.
BoundaryStrings ==
    {Repeat(97, n) : n \in {MaxStringBytes - 1, MaxStringBytes, MaxStringBytes + 1}}
    \cup {Repeat(233, n) : n \in {MaxStringBytes \div 2, MaxStringBytes \div 2 + 1}}
    \cup {Repeat(8364, n) : n \in {MaxStringBytes \div 3, MaxStringBytes \div 3 + 1}}
    \cup {RepeatPair(55357, 56832, n) :
             n \in {MaxStringBytes \div 4, MaxStringBytes \div 4 + 1}}

PlainInput(i) ==
    [utxoId |-> [txId |-> <<97>>, outputIndex |-> Num(i)],
     owner |-> <<65>>, signature |-> <<115>>]

PlainOutput(i) == [amount |-> Num(i), recipient |-> <<66>>]

PlainTx ==
    [id |-> <<116>>, timestamp |-> Num(7), inputs |-> <<PlainInput(1)>>,
     outputs |-> <<PlainOutput(1)>>]

\* PlainTx with one string field replaced by s.
LongStringTxs ==
    UNION {{[PlainTx EXCEPT !.id = s],
            [PlainTx EXCEPT !.inputs[1].utxoId.txId = s],
            [PlainTx EXCEPT !.inputs[1].owner = s],
            [PlainTx EXCEPT !.inputs[1].signature = s],
            [PlainTx EXCEPT !.outputs[1].recipient = s]} : s \in BoundaryStrings}

\* Transactions with 0, 255 and 256 inputs and outputs.
CountTxs ==
    {[PlainTx EXCEPT !.inputs = [i \in 1..n |-> PlainInput(i)],
                     !.outputs = [i \in 1..m |-> PlainOutput(i)]] :
        n \in {0, MaxInputs, MaxInputs + 1}, m \in {0, MaxOutputs, MaxOutputs + 1}}

\* Negative and non-integral numbers (-1, 0.5, -1.5) in each number field.
BadNumbers == {Num(-1), 1, -3}

BadNumberTxs ==
    UNION {{[PlainTx EXCEPT !.timestamp = n],
            [PlainTx EXCEPT !.inputs[1].utxoId.outputIndex = n],
            [PlainTx EXCEPT !.outputs[1].amount = n]} : n \in BadNumbers}

\* Two limits broken at once.
MixedTxs ==
    {[PlainTx EXCEPT !.id = Repeat(97, MaxStringBytes + 1),
                     !.inputs = [i \in 1..(MaxInputs + 1) |-> PlainInput(i)]],
     [PlainTx EXCEPT !.inputs = [i \in 1..(MaxInputs + 1) |-> PlainInput(i)],
                     !.outputs[1].amount = Num(-1)]}

\* The transactions the codec is run on: small ones of every shape, and
\* those at and around each limit.
CodecTxs ==
    SmallTxs \cup LongStringTxs \cup CountTxs \cup BadNumberTxs \cup MixedTxs

\* The transactions whose encodings are cut short.
TruncationTxs == {t \in SmallTxs : t.timestamp = Num(258)}

(***************************************************************************)
(* State machine                                                           *)
(***************************************************************************)
NotEncoded == [err |-> "pending", buf |-> <<>>]

NotDecoded == [err |-> "pending", tx |-> NoTransaction]

NoEfficiency ==
    [returned |-> FALSE, jsonSize |-> 0, binarySize |-> 0,
     savings |-> [text |-> "", tenths |-> 0]]

\* No result yet: "PENDING" is no error kind of the validator.
NotValidated == [valid |-> FALSE, errors |-> <<"PENDING">>]

Idle ==
    /\ buffer = NotEncoded
    /\ cut = 0
    /\ decoded = NotDecoded
    /\ efficiency = NoEfficiency
    /\ validation = NotValidated
    /\ calls = 0

\* The validator with a pool and a candidate transaction.
Init == IsSignedTx(tx) /\ store \in Pools /\ Idle

\* The codec with a transaction to encode.
CodecInit == tx \in CodecTxs /\ store = {} /\ Idle

\* The codec with a transaction whose encoding will lose its last bytes.
TruncationInit == tx \in TruncationTxs /\ store = {} /\ Idle

\* validator.validateTransaction(tx)
Validate ==
    /\ calls < MaxCalls
    /\ validation' = validateTransaction(tx, store)
    /\ store' = poolAfterValidate(tx, store)
    /\ calls' = calls + 1
    /\ UNCHANGED <<tx, buffer, cut, decoded, efficiency>>

\* The caller turns to another candidate transaction.
Submit(t) ==
    /\ calls > 0
    /\ calls < MaxCalls
    /\ t # tx
    /\ tx' = t
    /\ validation' = NotValidated
    /\ UNCHANGED <<store, calls, buffer, cut, decoded, efficiency>>

\* buffer = encodeTransaction(tx)
Encode ==
    /\ buffer = NotEncoded
    /\ buffer' = encodeTransaction(tx)
    /\ UNCHANGED <<tx, store, cut, decoded, efficiency, validation, calls>>

\* The encoded bytes lose their last byte (storage or transport cuts them).
Truncate ==
    /\ buffer.err = "none"
    /\ Len(buffer.buf) >= 1
    /\ buffer' = Ok(SubSeq(buffer.buf, 1, Len(buffer.buf) - 1))
    /\ cut' = cut + 1
    /\ decoded' = NotDecoded
    /\ UNCHANGED <<tx, store, efficiency, validation, calls>>

\* decodeTransaction(buffer)
Decode ==
    /\ buffer.err = "none"
    /\ decoded = NotDecoded
    /\ decoded' = decodeTransaction(buffer.buf)
    /\ UNCHANGED <<tx, store, buffer, cut, efficiency, validation, calls>>

\* getEncodingEfficiency(tx)
Efficiency ==
    /\ efficiency = NoEfficiency
    /\ efficiency' = getEncodingEfficiency(tx)
    /\ UNCHANGED <<tx, store, buffer, cut, decoded, validation, calls>>

Next == Validate \/ \E t \in FollowUps : Submit(t)

CodecNext == Encode \/ Decode \/ Efficiency

TruncationNext == Encode \/ Truncate \/ Decode

Spec == Init /\ [][Next]_vars

CodecSpec == CodecInit /\ [][CodecNext]_vars

TruncationSpec == TruncationInit /\ [][TruncationNext]_vars

(***************************************************************************)
(* What the claims speak of                                                *)
(***************************************************************************)
StringsOf(t) ==
    {t.id}
    \cup UNION {{t.inputs[i].utxoId.txId, t.inputs[i].owner,
                 t.inputs[i].signature} : i \in 1..Len(t.inputs)}
    \cup {t.outputs[i].recipient : i \in 1..Len(t.outputs)}

NumbersOf(t) ==
    {t.timestamp}
    \cup {t.inputs[i].utxoId.outputIndex : i \in 1..Len(t.inputs)}
    \cup {t.outputs[i].amount : i \in 1..Len(t.outputs)}

Utf8Size(str) == Len(Utf8Encode(str))

StringsFit(t) == \A str \in StringsOf(t) : Utf8Size(str) <= 255

NumbersFit(t) == \A n \in NumbersOf(t) : IsInteger(n) /\ n >= 0

\* The preconditions of the round trip: string sizes, list sizes, numbers.
WithinLimits(t) ==
    /\ StringsFit(t)
    /\ Len(t.inputs) <= 255
    /\ Len(t.outputs) <= 255
    /\ NumbersFit(t)

\* No unpaired surrogate: the string is the UTF-16 form of Unicode text.
WellFormedString(str) ==
    \A i \in 1..Len(str) :
        /\ IsHighSurrogate(str[i]) => (i < Len(str) /\ IsLowSurrogate(str[i + 1]))
        /\ IsLowSurrogate(str[i]) => (i > 1 /\ IsHighSurrogate(str[i - 1]))

WellFormed(t) == \A str \in StringsOf(t) : WellFormedString(str)

\* The size of the byte layout: length-prefixed strings, 8-byte numbers and
\* one count byte for each list.
LayoutSize(t) ==
    1 + Utf8Size(t.id) + 8 + 1
    + Sum([i \in 1..Len(t.inputs) |->
              1 + Utf8Size(t.inputs[i].utxoId.txId) + 8
              + 1 + Utf8Size(t.inputs[i].owner)
              + 1 + Utf8Size(t.inputs[i].signature)], 1, Len(t.inputs))
    + 1
    + Sum([i \in 1..Len(t.outputs) |->
              8 + 1 + Utf8Size(t.outputs[i].recipient)], 1, Len(t.outputs))

WasDecoded == decoded.err # "pending"

WasEncoded == buffer.err # "pending"

Validated == validation # NotValidated

Count(errors, kind) == Cardinality({i \in DOMAIN errors : errors[i] = kind})

Reports(kind) == Count(validation.errors, kind) > 0

Present(utxoId) == \E u \in store : u.id = utxoId

UtxoOf(utxoId) == CHOOSE u \in store : u.id = utxoId

FoundInputs == {i \in 1..Len(tx.inputs) : Present(tx.inputs[i].utxoId)}

\* The sum of utxo.amount over the inputs whose UTXO is found, once per
\* referencing input.
ExpectedInputsTotal ==
    Sum([i \in 1..Len(tx.inputs) |->
            IF i \in FoundInputs THEN UtxoOf(tx.inputs[i].utxoId).amount ELSE 0],
        1, Len(tx.inputs))

ExpectedOutputsTotal ==
    Sum([i \in 1..Len(tx.outputs) |-> tx.outputs[i].amount], 1, Len(tx.outputs))

SignatureAccepted(i) ==
    verify(createTransactionDataForSigning_(tx), tx.inputs[i].signature,
           tx.inputs[i].owner)

\* Inputs after the first that reference the UTXO of an earlier found input.
RepeatedFoundInputs ==
    {i \in FoundInputs :
        \E j \in FoundInputs : j < i /\ tx.inputs[j].utxoId = tx.inputs[i].utxoId}

HasDuplicateInputs ==
    \E i, j \in 1..Len(tx.inputs) :
        i < j /\ tx.inputs[i].utxoId = tx.inputs[j].utxoId

(***************************************************************************)
(* Claims                                                                  *)
(***************************************************************************)
\* C1 as stated: for every transaction within the limits (strings of at most
\* 255 UTF-8 bytes, at most 255 inputs and outputs, non-negative integral
\* numbers), decoding the untouched encoding gives back the transaction.
C1_RoundTripAnyString ==
    (WasDecoded /\ cut = 0 /\ WithinLimits(tx))
        => (decoded.err = "none" /\ decoded.tx = tx)

\* C1 amended: the round trip holds for every transaction within the limits
\* whose strings hold no unpaired surrogate.
C1_RoundTrip ==
    (WasDecoded /\ cut = 0 /\ WithinLimits(tx) /\ WellFormed(tx))
        => (decoded.err = "none" /\ decoded.tx = tx)

C1_Witness ==
    /\ WasDecoded /\ cut = 0 /\ WellFormed(tx)
    /\ decoded.tx = tx
    /\ Len(tx.inputs) >= 1 /\ Len(tx.outputs) >= 1
    /\ \E str \in StringsOf(tx) : Utf8Size(str) > Len(str)

C4_TruncatedDecodeFails ==
    (WasDecoded /\ cut >= 1) => decoded.err # "none"

\* C5: encodeTransaction succeeds with 255 inputs, 255 outputs and strings of
\* 255 UTF-8 bytes, and fails just past each limit with the error of that
\* limit, returning no bytes.
C5_LengthBoundaries ==
    (WasEncoded /\ NumbersFit(tx)) =>
        /\ (StringsFit(tx) /\ Len(tx.inputs) <= 255 /\ Len(tx.outputs) <= 255)
               => (buffer.err = "none" /\ Len(buffer.buf) = LayoutSize(tx))
        /\ (StringsFit(tx) /\ Len(tx.inputs) > 255)
               => buffer.err = "Inputs too long"
        /\ (StringsFit(tx) /\ Len(tx.inputs) <= 255 /\ Len(tx.outputs) > 255)
               => buffer.err = "Outputs too long"
        /\ (~StringsFit(tx) /\ Len(tx.inputs) <= 255 /\ Len(tx.outputs) <= 255)
               => buffer.err = "String too long"
        /\ buffer.err # "none" => buffer.buf = <<>>

C5_Witness ==
    /\ WasEncoded /\ buffer.err = "none"
    /\ Len(tx.inputs) = 255 /\ Len(tx.outputs) = 255

\* C6: the result holds AmountMismatch exactly when the sum of the found
\* UTXOs' amounts (absent: 0; non-positive: added; one per referencing
\* input) differs from the sum of the output amounts, whatever else is
\* reported; so an unknown UTXO with a mismatch reports both errors.
C6_MismatchIffTotalsDiffer ==
    Validated =>
        /\ Reports("AMOUNT_MISMATCH")
               <=> ExpectedInputsTotal # ExpectedOutputsTotal
        /\ Count(validation.errors, "AMOUNT_MISMATCH") <= 1
        /\ (FoundInputs # 1..Len(tx.inputs)
               /\ ExpectedInputsTotal # ExpectedOutputsTotal)
               => (Reports("UTXO_NOT_FOUND") /\ Reports("AMOUNT_MISMATCH"))

C6_Witness ==
    /\ Validated
    /\ Reports("UTXO_NOT_FOUND") /\ Reports("AMOUNT_MISMATCH")
    /\ FoundInputs # {}
    /\ \E i \in FoundInputs : UtxoOf(tx.inputs[i].utxoId).amount <= 0

C9_EfficiencyNeverThrows ==
    efficiency # NoEfficiency =>
        /\ efficiency.returned
        /\ ~WithinLimits(tx)
               => /\ efficiency.binarySize = -1
                  /\ efficiency.savings.text = "Not implemented"
        /\ WithinLimits(tx)
               => /\ efficiency.binarySize = LayoutSize(tx)
                  /\ WasEncoded => efficiency.binarySize = Len(buffer.buf)

C9_Witness ==
    /\ efficiency # NoEfficiency
    /\ efficiency.binarySize = -1
    /\ StringsFit(tx) /\ ~NumbersFit(tx)

\* C10: if an input references an existing UTXO and its signature was made
\* by an identity other than that UTXO's owner, the result reports
\* InvalidSignature and is not valid.
C10_SignedByUtxoOwner ==
    (Validated
     /\ \E i \in FoundInputs : \E who \in Identities :
            /\ who # UtxoOf(tx.inputs[i].utxoId).recipient
            /\ tx.inputs[i].signature
                   = Sign(createTransactionDataForSigning_(tx), who))
        => (Reports("INVALID_SIGNATURE") /\ ~validation.valid)

====
